---- MODULE Spec2Model ----
(***************************************************************************)
(* Token lifecycle of the JWT learning server.                             *)
(*                                                                         *)
(* Two programs live in the repository: src/server.js (access + refresh    *)
(* tokens, authentication middleware, renewal, logout) and the earlier     *)
(* src/unnamed/part_000 (login only, unguarded GET /post).  A behaviour    *)
(* runs one of them, chosen in Init (variable `variant`).                  *)
(*                                                                         *)
(* Every handler is one atomic action: Node runs a handler to completion   *)
(* and jsonwebtoken calls the verify callback synchronously when the key   *)
(* is a plain string, so no handler yields in the middle.  `res` holds the *)
(* request being answered and its response until Deliver hands it to the   *)
(* client; the next request, or the next clock advance, comes after that.  *)
(*                                                                         *)
(* A token string is modelled by its content: the payload it encodes and   *)
(* the HMAC it carries.  The HMAC of a payload under a key is the pair     *)
(* (key, payload): two tags are equal exactly when key and payload are.    *)
(***************************************************************************)
EXTENDS Integers, Sequences, FiniteSets

VARIABLES variant, now, ticks, refreshTokenList, handed, res

vars == <<variant, now, ticks, refreshTokenList, handed, res>>

(* ------------------------------ bounds -------------------------------- *)

\* number of clock advances in a behaviour
MaxTicks == 2
\* number of distinct tokens the server hands out in a behaviour
MaxHanded == 4
\* number of logins whose tokens are outstanding (length of refreshTokenList)
MaxSessions == 2

(* ---------------------------- constants ------------------------------- *)

\* expiresIn: '15s'
AccessTTL == 15

ACCESS_TOKEN_SECRET == "ACCESS_TOKEN_SECRET"

\* mutation: one secret signs both kinds of token
REFRESH_TOKEN_SECRET_Shared == ACCESS_TOKEN_SECRET

REFRESH_TOKEN_SECRET == "REFRESH_TOKEN_SECRET"

\* a key that is not on the server
AttackerKey == "attacker"

\* a property that is absent from an object
Undefined == "undefined"

posts ==
    << [username |-> "Kyle", title |-> "Post 1"],
       [username |-> "Jim", title |-> "Post 2"],
       [username |-> "Ishan", title |-> "Post 3"] >>

postsV0 ==
    << [username |-> "Kyle", title |-> "Post 1"],
       [username |-> "Jim", title |-> "Post 2"] >>

\* req.body.username as clients send it
UsernameInputs == {"Kyle", Undefined}

\* a username field in the body of POST /createtoken, which the route
\* does not read
BodyUsernameInputs == {Undefined, "Ishan"}

\* the clock advances between two requests
TickSteps == {1, AccessTTL - 1}

(* --------------------------- token codec ------------------------------ *)

\* req.user before the middleware sets it
NoPayload == [username |-> Undefined, name |-> Undefined, iat |-> 0, exp |-> {}]

\* HMAC-SHA256 of the encoded payload
HS256(key, payload) == [key |-> key, msg |-> payload]

\* a string that is no three-part JWT; form names the text
Word(form) == [form |-> form]

\* the value undefined (no string at all)
Null == Word("undefined")

EmptyWord == Word("")

Garbage == Word("garbage")

\* mutation: the payload carries no issue time (noTimestamp)
Sign_NoTimestamp(claims, key, expiresIn, t) ==
    LET payload == [username |-> claims.username, name |-> claims.name,
                    iat |-> 0, exp |-> {t + d : d \in expiresIn}]
    IN [form |-> "jwt", payload |-> payload, sig |-> HS256(key, payload)]

\* jwt.sign(claims, key, {expiresIn}) at clock t; expiresIn is {} or {seconds}
Sign(claims, key, expiresIn, t) ==
    LET payload == [username |-> claims.username, name |-> claims.name,
                    iat |-> t, exp |-> {t + d : d \in expiresIn}]
    IN [form |-> "jwt", payload |-> payload, sig |-> HS256(key, payload)]

\* jwt.verify(token, key, callback) at clock t: the (err, data) of the callback
Verify(token, key, t) ==
    IF token.form = "" \/ token.form = "undefined"
    THEN [err |-> "jwt must be provided", data |-> NoPayload]
    ELSE IF token.form # "jwt"
    THEN [err |-> "jwt malformed", data |-> NoPayload]
    ELSE IF token.sig # HS256(key, token.payload)
    THEN [err |-> "invalid signature", data |-> NoPayload]
    ELSE IF \E e \in token.payload.exp : t >= e
    THEN [err |-> "jwt expired", data |-> NoPayload]
    ELSE [err |-> "", data |-> token.payload]

\* const generateAccessToken = (userObject) => jwt.sign(..., { expiresIn: '15s' })
generateAccessToken(userObject, t) ==
    Sign(userObject, ACCESS_TOKEN_SECRET, {AccessTTL}, t)

(* ------------------------- requests (inputs) -------------------------- *)

Range(s) == {s[i] : i \in 1..Len(s)}

\* a token with its payload rewritten (another username, the expiration
\* removed) and its signature kept
TamperUsername(t) == [t EXCEPT !.payload.username = "Jim"]

StripExp(t) == [t EXCEPT !.payload.exp = {}]

Tampered(t) == {TamperUsername(t), StripExp(t)} \ {t}

\* a token a client signs itself
Forged(t) == Sign([username |-> "Kyle", name |-> Undefined], AttackerKey, {}, t)

\* the strings a client can send as a token
Presentable ==
    handed \cup UNION {Tampered(t) : t \in handed}
           \cup {Forged(now), Garbage, EmptyWord}

\* an Authorization header: absent, or its text split at the spaces
NoHeader == [absent |-> TRUE, words |-> << >>]

Header(words) == [absent |-> FALSE, words |-> words]

\* the values a client can send as body.token of DELETE /logout
LogoutInputs == handed \cup {Garbage, Null}

HeaderInputs ==
    {NoHeader, Header(<<EmptyWord>>), Header(<<Word("Bearer")>>),
     Header(<<Word("Bearer"), EmptyWord>>)}
        \cup {Header(<<Word("Bearer"), t>>) : t \in Presentable}
        \cup {Header(<<Word("Basic"), t>>) : t \in handed}
        \cup {Header(<<t>>) : t \in handed}

(* ------------------------------ state --------------------------------- *)

\* the answer to the last request, with the request it answers
NoRes ==
    [route |-> "none", header |-> NoHeader, token |-> Null, username |-> Undefined,
     at |-> 0, listBefore |-> << >>,
     status |-> 0, text |-> "", accessToken |-> Null, refreshToken |-> Null,
     posts |-> << >>, user |-> NoPayload, userSet |-> FALSE, nextCalls |-> 0,
     verifyCalls |-> << >>, handlerRan |-> FALSE, thrown |-> ""]

Req(route) ==
    [NoRes EXCEPT !.route = route, !.at = now, !.listBefore = refreshTokenList]

Init ==
    /\ variant \in {"server.js", "part_000"}
    /\ now = 0
    /\ ticks = 0
    /\ refreshTokenList = << >>
    /\ handed = {}
    /\ res = NoRes

Idle == res.route = "none"

\* the response leaves the server, which is ready for the next request
Deliver ==
    /\ ~Idle
    /\ res' = NoRes
    /\ UNCHANGED <<variant, now, ticks, refreshTokenList, handed>>

Tick(d) ==
    /\ Idle
    /\ ticks < MaxTicks
    /\ now' = now + d
    /\ ticks' = ticks + 1
    /\ UNCHANGED <<variant, refreshTokenList, handed, res>>

(* ---------------------- src/server.js: the guard ---------------------- *)

\* const token = authHeader && authHeader.split(' ')[1]
ExtractToken(header) ==
    IF header.absent THEN Null
    ELSE IF header.words = <<EmptyWord>> THEN EmptyWord
    ELSE IF Len(header.words) >= 2 THEN header.words[2]
    ELSE Null

\* mutation: an expired token gets an answer of its own
authenticateToken_TellsExpired(header, r) ==
    LET token == ExtractToken(header)
        v == Verify(token, ACCESS_TOKEN_SECRET, now)
        q == [r EXCEPT !.header = header, !.token = token]
    IN IF token = Null
       THEN [q EXCEPT !.status = 401,
                      !.text = "You did not send a token with your request"]
       ELSE IF v.err = "jwt expired"
       THEN [q EXCEPT !.status = 403, !.text = "Your token has expired",
                      !.verifyCalls = <<[token |-> token, key |-> ACCESS_TOKEN_SECRET]>>]
       ELSE IF v.err # ""
       THEN [q EXCEPT !.status = 403,
                      !.text = "You have a JWT token, but the token is no longer valid so you no longer have access",
                      !.verifyCalls = <<[token |-> token, key |-> ACCESS_TOKEN_SECRET]>>]
       ELSE [q EXCEPT !.user = v.data, !.userSet = TRUE, !.nextCalls = 1,
                      !.verifyCalls = <<[token |-> token, key |-> ACCESS_TOKEN_SECRET]>>]

\* mutation: the middleware also wants a refresh token of the user in
\* refreshTokenList
authenticateToken_ChecksStore(header, r) ==
    LET token == ExtractToken(header)
        v == Verify(token, ACCESS_TOKEN_SECRET, now)
        q == [r EXCEPT !.header = header, !.token = token]
        called == <<[token |-> token, key |-> ACCESS_TOKEN_SECRET]>>
        bad == "You have a JWT token, but the token is no longer valid so you no longer have access"
    IN IF token = Null
       THEN [q EXCEPT !.status = 401,
                      !.text = "You did not send a token with your request"]
       ELSE IF v.err # ""
       THEN [q EXCEPT !.status = 403, !.text = bad, !.verifyCalls = called]
       ELSE IF \A t \in Range(refreshTokenList) :
                  t.payload.username # v.data.username
       THEN [q EXCEPT !.status = 403, !.text = bad, !.verifyCalls = called]
       ELSE [q EXCEPT !.user = v.data, !.userSet = TRUE, !.nextCalls = 1,
                      !.verifyCalls = called]

\* the middleware on request r: the request as it is when the middleware ends
authenticateToken(header, r) ==
    LET token == ExtractToken(header)
        v == Verify(token, ACCESS_TOKEN_SECRET, now)
        q == [r EXCEPT !.header = header, !.token = token]
    IN IF token = Null
       THEN [q EXCEPT !.status = 401,
                      !.text = "You did not send a token with your request"]
       ELSE IF v.err # ""
       THEN [q EXCEPT !.status = 403,
                      !.text = "You have a JWT token, but the token is no longer valid so you no longer have access",
                      !.verifyCalls = <<[token |-> token, key |-> ACCESS_TOKEN_SECRET]>>]
       ELSE [q EXCEPT !.user = v.data, !.userSet = TRUE, !.nextCalls = 1,
                      !.verifyCalls = <<[token |-> token, key |-> ACCESS_TOKEN_SECRET]>>]

\* mutation: the posts are returned unfiltered
PostsOf_All(user) == posts

\* posts.filter(post => post.username === req.user.username)
PostsOf(user) == SelectSeq(posts, LAMBDA post : post.username = user.username)

\* app.get('/posts', authenticateToken, ...)
GetPosts(header) ==
    /\ variant = "server.js"
    /\ Idle
    /\ LET g == authenticateToken(header, Req("GET /posts"))
       IN res' = IF g.nextCalls > 0
                 THEN [g EXCEPT !.status = 200, !.posts = PostsOf(g.user),
                                !.handlerRan = TRUE]
                 ELSE g
    /\ UNCHANGED <<variant, now, ticks, refreshTokenList, handed>>

(* ------------------ src/server.js: login, renew, logout --------------- *)

\* mutation: the refresh token is signed with the access token's expiresIn
signRefreshToken_Expiring(userObject, t) ==
    Sign(userObject, REFRESH_TOKEN_SECRET, {AccessTTL}, t)

\* mutation: the refresh token is signed with the access secret
signRefreshToken_AccessKey(userObject, t) ==
    Sign(userObject, ACCESS_TOKEN_SECRET, {}, t)

\* jwt.sign(userObject, process.env.REFRESH_TOKEN_SECRET)
signRefreshToken(userObject, t) == Sign(userObject, REFRESH_TOKEN_SECRET, {}, t)

\* app.post('/login', ...)
Login(username) ==
    /\ variant = "server.js"
    /\ Idle
    /\ LET userObject == [username |-> username, name |-> Undefined]
           accessToken == generateAccessToken(userObject, now)
           refreshToken == signRefreshToken(userObject, now)
       IN /\ Len(refreshTokenList) < MaxSessions
          /\ Cardinality(handed \cup {accessToken, refreshToken}) <= MaxHanded
          /\ refreshTokenList' = Append(refreshTokenList, refreshToken)
          /\ handed' = handed \cup {accessToken, refreshToken}
          /\ res' = [Req("POST /login") EXCEPT
                        !.username = username, !.status = 200, !.handlerRan = TRUE,
                        !.accessToken = accessToken, !.refreshToken = refreshToken]
    /\ UNCHANGED <<variant, now, ticks>>

\* mutation: the new access token is signed over the username of the body
createtoken_TrustsBody(refreshToken, r) ==
    LET v == Verify(refreshToken, REFRESH_TOKEN_SECRET, now)
        q == [r EXCEPT !.token = refreshToken, !.handlerRan = TRUE]
        called == <<[token |-> refreshToken, key |-> REFRESH_TOKEN_SECRET]>>
    IN IF refreshToken = Null
       THEN [q EXCEPT !.status = 401,
                      !.text = "Refresh token not sent in POST request"]
       ELSE IF refreshToken \notin Range(refreshTokenList)
       THEN [q EXCEPT !.status = 403,
                      !.text = "Refresh token that was sent is not a valid refresh token"]
       ELSE IF v.err # ""
       THEN [q EXCEPT !.status = 403, !.verifyCalls = called,
                      !.text = "Error occured during verification of refresh token"]
       ELSE [q EXCEPT !.status = 200, !.verifyCalls = called,
                      !.accessToken =
                          generateAccessToken([username |-> r.username,
                                               name |-> Undefined], now)]

\* mutation: the list is consulted before the body is tested for a token
createtoken_LookupFirst(refreshToken, r) ==
    LET v == Verify(refreshToken, REFRESH_TOKEN_SECRET, now)
        q == [r EXCEPT !.token = refreshToken, !.handlerRan = TRUE]
        called == <<[token |-> refreshToken, key |-> REFRESH_TOKEN_SECRET]>>
    IN IF refreshToken \notin Range(refreshTokenList)
       THEN [q EXCEPT !.status = 403,
                      !.text = "Refresh token that was sent is not a valid refresh token"]
       ELSE IF refreshToken = Null
       THEN [q EXCEPT !.status = 401,
                      !.text = "Refresh token not sent in POST request"]
       ELSE IF v.err # ""
       THEN [q EXCEPT !.status = 403, !.verifyCalls = called,
                      !.text = "Error occured during verification of refresh token"]
       ELSE [q EXCEPT !.status = 200, !.verifyCalls = called,
                      !.accessToken =
                          generateAccessToken([username |-> v.data.username,
                                               name |-> Undefined], now)]

\* mutation: the token is verified without looking it up in refreshTokenList
createtoken_NoLookup(refreshToken, r) ==
    LET v == Verify(refreshToken, REFRESH_TOKEN_SECRET, now)
        q == [r EXCEPT !.token = refreshToken, !.handlerRan = TRUE]
        called == <<[token |-> refreshToken, key |-> REFRESH_TOKEN_SECRET]>>
    IN IF refreshToken = Null
       THEN [q EXCEPT !.status = 401,
                      !.text = "Refresh token not sent in POST request"]
       ELSE IF v.err # ""
       THEN [q EXCEPT !.status = 403, !.verifyCalls = called,
                      !.text = "Error occured during verification of refresh token"]
       ELSE [q EXCEPT !.status = 200, !.verifyCalls = called,
                      !.accessToken =
                          generateAccessToken([username |-> v.data.username,
                                               name |-> Undefined], now)]

\* app.post('/createtoken', ...): the response to body { token: refreshToken }
createtoken(refreshToken, r) ==
    LET v == Verify(refreshToken, REFRESH_TOKEN_SECRET, now)
        q == [r EXCEPT !.token = refreshToken, !.handlerRan = TRUE]
        called == <<[token |-> refreshToken, key |-> REFRESH_TOKEN_SECRET]>>
    IN IF refreshToken = Null
       THEN [q EXCEPT !.status = 401,
                      !.text = "Refresh token not sent in POST request"]
       ELSE IF refreshToken \notin Range(refreshTokenList)
       THEN [q EXCEPT !.status = 403,
                      !.text = "Refresh token that was sent is not a valid refresh token"]
       ELSE IF v.err # ""
       THEN [q EXCEPT !.status = 403, !.verifyCalls = called,
                      !.text = "Error occured during verification of refresh token"]
       ELSE [q EXCEPT !.status = 200, !.verifyCalls = called,
                      !.accessToken =
                          generateAccessToken([username |-> v.data.username,
                                               name |-> Undefined], now)]

\* mutation: a successful renewal consumes the refresh token
CreateToken_Consumes(refreshToken, username) ==
    /\ variant = "server.js"
    /\ Idle
    /\ LET r == createtoken(refreshToken,
                            [Req("POST /createtoken") EXCEPT !.username = username])
       IN /\ Cardinality(handed \cup ({r.accessToken} \ {Null})) <= MaxHanded
          /\ handed' = handed \cup ({r.accessToken} \ {Null})
          /\ res' = r
          /\ refreshTokenList' =
                IF r.status = 200
                THEN SelectSeq(refreshTokenList, LAMBDA token : token # refreshToken)
                ELSE refreshTokenList
    /\ UNCHANGED <<variant, now, ticks>>

\* the body may carry other fields than token; username is one
CreateToken(refreshToken, username) ==
    /\ variant = "server.js"
    /\ Idle
    /\ LET r == createtoken(refreshToken,
                            [Req("POST /createtoken") EXCEPT !.username = username])
       IN /\ Cardinality(handed \cup ({r.accessToken} \ {Null})) <= MaxHanded
          /\ handed' = handed \cup ({r.accessToken} \ {Null})
          /\ res' = r
    /\ UNCHANGED <<variant, now, ticks, refreshTokenList>>

\* mutation: logout empties the list
Revoke_Clear(list, bodyToken) == << >>

\* mutation: only the first occurrence is removed (indexOf and splice)
RECURSIVE Revoke_First(_, _)
Revoke_First(list, bodyToken) ==
    IF list = << >> THEN << >>
    ELSE IF Head(list) = bodyToken THEN Tail(list)
    ELSE <<Head(list)>> \o Revoke_First(Tail(list), bodyToken)

\* refreshTokenList.filter(token => token !== req.body.token)
Revoke(list, bodyToken) == SelectSeq(list, LAMBDA token : token # bodyToken)

\* app.delete('/logout', ...)
Logout(bodyToken) ==
    /\ variant = "server.js"
    /\ Idle
    /\ refreshTokenList' = Revoke(refreshTokenList, bodyToken)
    /\ res' = [Req("DELETE /logout") EXCEPT
                  !.token = bodyToken, !.status = 204, !.handlerRan = TRUE]
    /\ UNCHANGED <<variant, now, ticks, handed>>

(* ------------------------ src/unnamed/part_000 ------------------------ *)

\* const authenticateToken = (req, res, next) => ... of part_000: the test
\* is token === null, which undefined and strings never pass; jwt.verify is
\* called without callback, so it returns the payload or throws; nothing
\* follows the call
authenticateTokenV0(header, r) ==
    LET token == ExtractToken(header)
        v == Verify(token, ACCESS_TOKEN_SECRET, now)
        q == [r EXCEPT !.header = header, !.token = token]
        called == <<[token |-> token, key |-> ACCESS_TOKEN_SECRET]>>
    IN IF token = Word("null")
       THEN [q EXCEPT !.status = 400, !.text = "Error"]
       ELSE IF v.err # ""
       THEN [q EXCEPT !.verifyCalls = called, !.thrown = v.err]
       ELSE [q EXCEPT !.verifyCalls = called]

\* the middleware of part_000 called on a request; the file defines it and
\* mounts it on no route
AuthenticateV0(header) ==
    /\ variant = "part_000"
    /\ Idle
    /\ res' = authenticateTokenV0(header, Req("authenticateToken"))
    /\ UNCHANGED <<variant, now, ticks, refreshTokenList, handed>>

\* app.post('/login', ...): one access token, signed without expiresIn
LoginV0(username) ==
    /\ variant = "part_000"
    /\ Idle
    /\ LET userObject == [name |-> username, username |-> Undefined]
           accessToken == Sign(userObject, ACCESS_TOKEN_SECRET, {}, now)
       IN /\ Cardinality(handed \cup {accessToken}) <= MaxSessions
          /\ handed' = handed \cup {accessToken}
          /\ res' = [Req("POST /login") EXCEPT
                        !.username = username, !.status = 200, !.handlerRan = TRUE,
                        !.accessToken = accessToken]
    /\ UNCHANGED <<variant, now, ticks, refreshTokenList>>

\* app.get('/post', ...): no middleware is mounted on the route
GetPostV0(header) ==
    /\ variant = "part_000"
    /\ Idle
    /\ res' = [Req("GET /post") EXCEPT
                  !.header = header, !.token = ExtractToken(header),
                  !.status = 200, !.posts = postsV0, !.handlerRan = TRUE]
    /\ UNCHANGED <<variant, now, ticks, refreshTokenList, handed>>

(* --------------------------- specification ---------------------------- *)

Next ==
    \/ \E d \in TickSteps : Tick(d)
    \/ \E u \in UsernameInputs : Login(u)
    \/ \E h \in HeaderInputs : GetPosts(h)
    \/ \E t \in Presentable \cup {Null}, u \in BodyUsernameInputs : CreateToken(t, u)
    \/ \E t \in LogoutInputs : Logout(t)
    \/ \E u \in UsernameInputs : LoginV0(u)
    \/ \E h \in HeaderInputs : GetPostV0(h)
    \/ \E h \in HeaderInputs : AuthenticateV0(h)
    \/ Deliver

Spec == Init /\ [][Next]_vars

(* ------------------------------- claims ------------------------------- *)

\* C1: POST /createtoken with a token string that is not in refreshTokenList
\* is answered 403 and mints no access token, also when the token is a
\* correctly signed refresh token; verification is not attempted for it.
C1_UnregisteredRejected ==
    (res.route = "POST /createtoken" /\ res.token # Null
        /\ res.token \notin Range(res.listBefore))
    => /\ res.status = 403
       /\ res.text = "Refresh token that was sent is not a valid refresh token"
       /\ res.accessToken = Null
       /\ res.verifyCalls = << >>

\* a refresh token that still verifies, renewed after its logout
C1_Witness ==
    /\ res.route = "POST /createtoken"
    /\ res.token \notin Range(res.listBefore)
    /\ Verify(res.token, REFRESH_TOKEN_SECRET, res.at).err = ""
    /\ res.status = 403

\* C2: /login leaves the refresh token it returns in refreshTokenList; a
\* token leaves the list only by a /logout for it and, once out, comes back
\* only by a /login that returns it; /logout leaves its token out of the
\* list; a renewal is rejected as unregistered exactly when its token is
\* not in the list.
C2_ActiveUntilLogout ==
    [][variant = "server.js" =>
        /\ res'.route = "POST /login" =>
              res'.refreshToken \in Range(refreshTokenList')
        /\ res'.route = "DELETE /logout" =>
              res'.token \notin Range(refreshTokenList')
        /\ \A R \in handed' :
              /\ (R \in Range(refreshTokenList) /\ R \notin Range(refreshTokenList'))
                    => (res'.route = "DELETE /logout" /\ res'.token = R)
              /\ (R \notin Range(refreshTokenList) /\ R \in Range(refreshTokenList'))
                    => (res'.route = "POST /login" /\ res'.refreshToken = R)
        /\ (res'.route = "POST /createtoken" /\ res'.token # Null) =>
              ((res'.status = 403 /\ res'.text =
                    "Refresh token that was sent is not a valid refresh token")
                 <=> res'.token \notin Range(refreshTokenList))
    ]_vars

\* a refresh token the server handed out, renewed at a later second than
\* its login and after its logout
C2_Witness ==
    /\ res.route = "POST /createtoken"
    /\ res.token \in handed
    /\ res.token.sig.key = REFRESH_TOKEN_SECRET
    /\ res.token \notin Range(refreshTokenList)
    /\ res.at > res.token.payload.iat
    /\ res.status = 403

\* the header reads `Bearer <token>` with a token part that is not empty
BearerForm(header) ==
    /\ ~header.absent
    /\ Len(header.words) = 2
    /\ header.words[1] = Word("Bearer")
    /\ header.words[2] # EmptyWord

\* C3: a GET /posts whose Authorization header is absent or is not of the
\* form `Bearer <token>` is answered 401; the verifier is not called and
\* the route handler does not run.
C3_NoTokenRejected ==
    (res.route = "GET /posts" /\ ~BearerForm(res.header))
    => /\ res.status = 401
       /\ res.verifyCalls = << >>
       /\ res.nextCalls = 0
       /\ ~res.handlerRan

\* C4: when a token is present and its verification against the access
\* secret fails (expired, bad signature or wrong key, malformed), the guard
\* answers 403 with one and the same text, does not set req.user and does
\* not call next, and the route handler does not run.
C4_InvalidTokenRejected ==
    (res.route = "GET /posts" /\ res.token # Null
        /\ Verify(res.token, ACCESS_TOKEN_SECRET, res.at).err # "")
    => /\ res.status = 403
       /\ res.text = "You have a JWT token, but the token is no longer valid so you no longer have access"
       /\ ~res.userSet
       /\ res.user = NoPayload
       /\ res.nextCalls = 0
       /\ ~res.handlerRan
       /\ res.posts = << >>

\* an access token of the server, presented after its expiration
C4_Witness ==
    /\ res.route = "GET /posts"
    /\ res.token \in handed
    /\ Verify(res.token, ACCESS_TOKEN_SECRET, res.at).err = "jwt expired"
    /\ res.status = 403

\* C5: an access token the server issued for username U, presented
\* unmodified before its expiration: the guard sets req.user to the claims
\* signed into it, calls next once, and GET /posts answers 200 with exactly
\* the posts of U, in the order of the posts table.
C5_OwnPostsOnly ==
    (res.route = "GET /posts" /\ res.token \in handed
        /\ res.token.sig.key = ACCESS_TOKEN_SECRET
        /\ \A e \in res.token.payload.exp : res.at < e)
    => /\ res.userSet
       /\ res.user = res.token.payload
       /\ res.nextCalls = 1
       /\ res.handlerRan
       /\ res.status = 200
       /\ \A i \in 1..Len(res.posts) :
             res.posts[i].username = res.token.payload.username
       /\ \A i \in 1..Len(posts) :
             posts[i].username = res.token.payload.username
                => posts[i] \in Range(res.posts)
       /\ Len(res.posts) <= Len(posts)

\* Kyle's access token, presented in time, answered with Kyle's one post
C5_Witness ==
    /\ res.route = "GET /posts"
    /\ res.token \in handed
    /\ res.token.payload.username = "Kyle"
    /\ res.status = 200
    /\ res.posts = <<[username |-> "Kyle", title |-> "Post 1"]>>

\* C6: every access token handed out by /login or /createtoken expires 15
\* seconds after its issue time; the guard accepts it at every time before
\* that and rejects it with 403 at every time after it; no access token is
\* issued without expiration.
C6_AccessTokensExpire ==
    /\ \A t \in handed :
          t.sig.key = ACCESS_TOKEN_SECRET
             => t.payload.exp = {t.payload.iat + AccessTTL}
    /\ (res.route \in {"POST /login", "POST /createtoken"} /\ res.status = 200)
          => res.accessToken.payload.exp = {res.at + AccessTTL}
    /\ (res.route = "GET /posts" /\ res.token \in handed
            /\ res.token.sig.key = ACCESS_TOKEN_SECRET)
          => /\ res.at < res.token.payload.iat + AccessTTL => res.status = 200
             /\ res.at > res.token.payload.iat + AccessTTL => res.status = 403

\* C7: the guard's outcome is a function of the header and the clock alone
\* (no part of it depends on refreshTokenList): 401 exactly when no token
\* is extracted, 403 exactly when the extracted token fails verification,
\* next and 200 exactly when it verifies.
C7_GuardIgnoresStore ==
    res.route = "GET /posts" =>
        LET token == ExtractToken(res.header)
            ok == token # Null /\ Verify(token, ACCESS_TOKEN_SECRET, res.at).err = ""
        IN /\ res.token = token
           /\ res.status = 401 <=> token = Null
           /\ res.status = 403 <=> (token # Null /\ ~ok)
           /\ res.status = 200 <=> ok
           /\ res.nextCalls = 1 <=> ok
           /\ res.userSet <=> ok

\* an unexpired access token accepted while the refresh token of its login
\* has been logged out
C7_Witness ==
    /\ res.route = "GET /posts"
    /\ res.status = 200
    /\ res.token \in handed
    /\ \E R \in handed :
          /\ R.sig.key = REFRESH_TOKEN_SECRET
          /\ R.payload.username = res.token.payload.username
          /\ R.payload.iat = res.token.payload.iat
    /\ refreshTokenList = << >>
    /\ res.listBefore = << >>

\* C8: an access token of the server presented to POST /createtoken never
\* yields an access token, and a refresh token of the server presented to
\* the guard is answered 403 and never accepted.
C8_RolesNotInterchangeable ==
    /\ (res.route = "POST /createtoken" /\ res.token \in handed
            /\ res.token.sig.key = ACCESS_TOKEN_SECRET)
          => (res.status = 403 /\ res.accessToken = Null)
    /\ (res.route = "GET /posts" /\ res.token \in handed
            /\ res.token.sig.key = REFRESH_TOKEN_SECRET)
          => (res.status = 403 /\ res.nextCalls = 0 /\ ~res.handlerRan)

\* a registered refresh token sent as the Bearer token
C8_Witness ==
    /\ res.route = "GET /posts"
    /\ BearerForm(res.header)
    /\ res.token \in Range(refreshTokenList)
    /\ res.status = 403

\* C9: POST /login always answers 200 with an access token and a refresh
\* token signed over the same username, and the refresh token is in
\* refreshTokenList when the response is sent.
C9_LoginAlwaysSucceeds ==
    res.route = "POST /login"
    => /\ res.status = 200
       /\ res.accessToken # Null
       /\ res.refreshToken # Null
       /\ res.accessToken.payload.username = res.username
       /\ res.refreshToken.payload.username = res.username
       /\ res.refreshToken \in Range(refreshTokenList)

\* C10: no entry of refreshTokenList carries an expiration, and POST
\* /createtoken with a token that is in the list answers 200 with an access
\* token issued at the time of the request, whatever that time is.
C10_RefreshNeverExpires ==
    /\ \A R \in Range(refreshTokenList) : R.payload.exp = {}
    /\ (res.route = "POST /createtoken" /\ res.token # Null
            /\ res.token \in Range(res.listBefore))
          => /\ res.status = 200
             /\ res.accessToken # Null
             /\ res.accessToken.payload.iat = res.at
             /\ res.accessToken.payload.username = res.token.payload.username

\* a renewal that succeeds when the access token's lifetime has passed
\* twice since the login
C10_Witness ==
    /\ res.route = "POST /createtoken"
    /\ res.token \in Range(refreshTokenList)
    /\ res.at >= res.token.payload.iat + AccessTTL + AccessTTL - 2
    /\ res.status = 200

\* C11: a successful renewal returns the access token that
\* generateAccessToken signs, at the time of the request, over the username
\* of the presented refresh token's payload, whatever username the body
\* carries; the guard accepts that token and the route then answers with
\* the posts of the user who logged in.
C11_RenewalKeepsIdentity ==
    (res.route = "POST /createtoken" /\ res.status = 200)
    => LET U == res.token.payload.username
           v == Verify(res.accessToken, ACCESS_TOKEN_SECRET, res.at)
       IN /\ res.accessToken =
                generateAccessToken([username |-> U, name |-> Undefined], res.at)
          /\ res.accessToken \in handed
          /\ v.err = ""
          /\ v.data.username = U
          /\ PostsOf(v.data) = SelectSeq(posts, LAMBDA post : post.username = U)
          /\ \E R \in handed :
                /\ R.sig.key = REFRESH_TOKEN_SECRET
                /\ R = res.token
                /\ R.payload.username = res.accessToken.payload.username

\* Kyle's refresh token renewed by a request whose body names Ishan
C11_Witness ==
    /\ res.route = "POST /createtoken"
    /\ res.status = 200
    /\ res.username = "Ishan"
    /\ res.token.payload.username = "Kyle"
    /\ res.accessToken.payload.username = "Kyle"

\* C12: POST /createtoken answers 401 to a body without token, and does so
\* without verifying anything; a token that is present and not in
\* refreshTokenList is answered 403 as unregistered, again without
\* verification; a token of the list is verified once, against the refresh
\* secret; an access token is returned only with 200, and 200 only for a
\* registered token whose verification succeeds.
C12_RenewalCheckOrder ==
    res.route = "POST /createtoken" =>
        LET registered == res.token \in Range(res.listBefore)
            v == Verify(res.token, REFRESH_TOKEN_SECRET, res.at)
        IN /\ res.token = Null =>
                 /\ res.status = 401
                 /\ res.text = "Refresh token not sent in POST request"
                 /\ res.verifyCalls = << >>
           /\ (res.token # Null /\ ~registered) =>
                 /\ res.status = 403
                 /\ res.text = "Refresh token that was sent is not a valid refresh token"
                 /\ res.verifyCalls = << >>
           /\ (res.token # Null /\ registered) =>
                 /\ res.verifyCalls =
                       <<[token |-> res.token, key |-> REFRESH_TOKEN_SECRET]>>
                 /\ v.err # "" => res.status = 403
                 /\ v.err = "" => res.status = 200
           /\ res.status \in {200, 401, 403}
           /\ res.accessToken # Null <=> res.status = 200
           /\ res.status = 200 => (res.token # Null /\ registered /\ v.err = "")

\* a renewal request without token, made while a refresh token is registered
C12_Witness ==
    /\ res.route = "POST /createtoken"
    /\ res.token = Null
    /\ res.listBefore # << >>
    /\ res.status = 401

\* the number of entries of list that equal x
Count(list, x) == Cardinality({i \in 1..Len(list) : list[i] = x})

\* C13: DELETE /logout always answers 204; with a token that is not in
\* refreshTokenList (never issued, revoked before, or missing from the
\* body) the list is left as it was; a second logout with the same token
\* would change nothing; every entry different from the presented token
\* stays, as many times as it was there, and nothing is added.
C13_LogoutIdempotent ==
    res.route = "DELETE /logout" =>
        /\ res.status = 204
        /\ res.token \notin Range(res.listBefore)
              => refreshTokenList = res.listBefore
        /\ Revoke(refreshTokenList, res.token) = refreshTokenList
        /\ \A R \in Range(res.listBefore) \ {res.token} :
              Count(refreshTokenList, R) = Count(res.listBefore, R)
        /\ Range(refreshTokenList) \subseteq Range(res.listBefore)

\* a logout with a token that is not registered, while another one is
C13_Witness ==
    /\ res.route = "DELETE /logout"
    /\ res.token \notin Range(res.listBefore)
    /\ res.listBefore # << >>
    /\ refreshTokenList = res.listBefore

\* C14: a step changes refreshTokenList only if it is a /login, which
\* appends exactly the refresh token it returns, or a /logout, which
\* removes exactly the entries equal to the presented token; GET /posts,
\* POST /createtoken (accepted or rejected), the delivery of a response and
\* the clock leave the list as it is.
C14_ListFrame ==
    [][/\ res'.route = "POST /login" /\ variant = "server.js"
            => refreshTokenList' = Append(refreshTokenList, res'.refreshToken)
       /\ res'.route = "DELETE /logout"
            => /\ Range(refreshTokenList') = Range(refreshTokenList) \ {res'.token}
               /\ \A R \in Range(refreshTokenList') :
                     Count(refreshTokenList', R) = Count(refreshTokenList, R)
       /\ res'.route \notin {"POST /login", "DELETE /logout"}
            => refreshTokenList' = refreshTokenList
       /\ res'.route \in {"GET /posts", "POST /createtoken", "GET /post"}
            => res'.listBefore = refreshTokenList'
    ]_vars

\* a renewal that succeeded and left its refresh token registered, at the
\* second of the login
C14_Witness ==
    /\ res.route = "POST /createtoken"
    /\ res.status = 200
    /\ res.at = res.token.payload.iat
    /\ refreshTokenList = res.listBefore
    /\ res.token \in Range(refreshTokenList)

\* the abstract state of the revocation store: the set of active tokens
ActiveSet == Range(refreshTokenList)

\* C15: refreshTokenList refines a set of active tokens.  The set is empty
\* at the start; /login inserts the token it returns (no change of the set
\* when the token is already in it), /logout deletes the presented token
\* (however many times it was registered), no other step changes the set,
\* and a renewal is rejected as unregistered exactly when its token is not
\* a member of the set.
C15_SetRefinement ==
    /\ ActiveSet = {}
    /\ [][/\ res'.route = "POST /login" /\ variant = "server.js"
               => /\ ActiveSet' = ActiveSet \cup {res'.refreshToken}
                  /\ res'.refreshToken \in ActiveSet => ActiveSet' = ActiveSet
          /\ res'.route = "DELETE /logout"
               => ActiveSet' = ActiveSet \ {res'.token}
          /\ res'.route \notin {"POST /login", "DELETE /logout"}
               => ActiveSet' = ActiveSet
          /\ res'.route = "POST /createtoken" /\ res'.token # Null
               => ((res'.status = 403 /\ res'.verifyCalls = << >>)
                      <=> res'.token \notin ActiveSet)
       ]_vars

\* one logout of a token that was registered twice
C15_Witness ==
    /\ res.route = "DELETE /logout"
    /\ Count(res.listBefore, res.token) = 2
    /\ res.token \notin ActiveSet

\* the refresh token a /login for username u would push now
PushedNow(u) == signRefreshToken([username |-> u, name |-> Undefined], now)

C17_GuardOneOutcome ==
    res.route \in {"GET /posts", "authenticateToken"} =>
        LET rejected == res.status \in {400, 401, 403}
            passed == res.nextCalls = 1
        IN /\ rejected \/ passed
           /\ ~(rejected /\ passed)
           /\ res.nextCalls \in {0, 1}
           /\ res.thrown = ""
           /\ rejected => refreshTokenList = res.listBefore

\* C18: in every reachable state each entry of refreshTokenList is a token
\* that /login handed out, signed with the refresh secret and without
\* expiration, and it verifies against the refresh secret now; so a
\* renewal with a token of the list answers 200, and no renewal gets the
\* verification-failure answer.
C18_RegisteredTokensVerify ==
    /\ \A R \in Range(refreshTokenList) :
          /\ R \in handed
          /\ R.form = "jwt"
          /\ R.sig = HS256(REFRESH_TOKEN_SECRET, R.payload)
          /\ R.payload.exp = {}
          /\ R.payload.iat <= now
          /\ Verify(R, REFRESH_TOKEN_SECRET, now).err = ""
    /\ res.route = "POST /createtoken" =>
          /\ res.text # "Error occured during verification of refresh token"
          /\ res.token \in Range(res.listBefore) => res.status = 200
          /\ res.status = 403 => res.verifyCalls = << >>

\* a renewal with one of two different registered tokens
C18_Witness ==
    /\ res.route = "POST /createtoken"
    /\ res.status = 200
    /\ res.verifyCalls # << >>
    /\ Cardinality(Range(refreshTokenList)) = 2

\* C19 (as claimed): the refresh token a /login returns differs from every
\* refresh token that is active when the login is handled, so a /logout
\* ends one session (one entry of the list) at most.
C19_FreshRefreshToken ==
    /\ (res.route = "POST /login" /\ variant = "server.js")
          => res.refreshToken \notin Range(res.listBefore)
    /\ res.route = "DELETE /logout"
          => Len(res.listBefore) - Len(refreshTokenList) <= 1

\* C19 (amended): the refresh token a /login returns differs from every
\* active refresh token of another username or of a login handled in
\* another second; an active token equal to it is the token of a login of
\* the same username in the same second.  A /logout makes inactive the
\* presented token only, in all the entries that hold it.
C19_FreshPerUserAndSecond ==
    /\ (res.route = "POST /login" /\ variant = "server.js") =>
          /\ \A R \in Range(res.listBefore) :
                (R.payload.username # res.username \/ R.payload.iat # res.at)
                   => R # res.refreshToken
          /\ \A R \in Range(res.listBefore) :
                R = res.refreshToken
                   => (R.payload.username = res.username /\ R.payload.iat = res.at)
          /\ Count(refreshTokenList, res.refreshToken)
                = Count(res.listBefore, res.refreshToken) + 1
    /\ res.route = "DELETE /logout" =>
          /\ Range(res.listBefore) \ Range(refreshTokenList) \subseteq {res.token}
          /\ Len(res.listBefore) - Len(refreshTokenList)
                = Count(res.listBefore, res.token)

\* a second login of a username within one second: the token it returns
\* is already registered
C19_Witness ==
    /\ res.route = "POST /login"
    /\ variant = "server.js"
    /\ res.refreshToken \in Range(res.listBefore)
    /\ Count(refreshTokenList, res.refreshToken) = 2

\* username U has no active refresh token
Inactive(U) ==
    \A R \in Range(refreshTokenList) : R.payload.username # U

\* the request in flight is a renewal that minted an access token for U
Minted(U) ==
    /\ res.route = "POST /createtoken"
    /\ res.status = 200
    /\ res.accessToken.payload.username = U

\* the request in flight is a GET /posts the guard let through as U
Served(U) ==
    /\ res.route = "GET /posts"
    /\ res.nextCalls > 0
    /\ res.user.username = U

\* the seconds the clock can show after at most n steps of Tick
RECURSIVE ClockAfter(_)
ClockAfter(n) ==
    IF n = 0 THEN {0}
    ELSE LET P == ClockAfter(n - 1)
         IN P \cup {p + d : p \in P, d \in TickSteps}

Times == ClockAfter(MaxTicks)

\* C20: access after logout is bounded.  If at second t username U has no
\* active refresh token and none is registered for U from then on (no
\* /login for U), then from then on no /createtoken mints an access token
\* for U, and at every second later than t + 15 no GET /posts passes the
\* guard as U, so U's posts are not returned again.
C20_AccessBoundedAfterLogout ==
    \A U \in UsernameInputs : \A t \in Times :
        []((variant = "server.js" /\ Inactive(U) /\ now = t)
              => ([]Inactive(U)
                     => [](~Minted(U) /\ (now > t + AccessTTL => ~Served(U)))))

\* Kyle's session was ended, more than 15 seconds have passed since the
\* tokens were issued, and the guard turns away Kyle's own access token
C20_Witness ==
    /\ variant = "server.js"
    /\ Inactive("Kyle")
    /\ res.route = "GET /posts"
    /\ res.status = 403
    /\ res.token \in handed
    /\ res.token.form = "jwt"
    /\ res.token.sig = HS256(ACCESS_TOKEN_SECRET, res.token.payload)
    /\ res.token.payload.username = "Kyle"
    /\ \E e \in res.token.payload.exp : res.at > e

====
